---- MODULE Spec2Model ----
(***************************************************************************)
(* Scheduling core of freegeek/models.py: the Appointment overlap          *)
(* comparison (Appointment.__eq__), create_appointment,                    *)
(* assign_profile_to_appointment and unassign_profile_to_appointment.      *)
(*                                                                         *)
(* Python values are modelled as follows.  None is 0; object ids           *)
(* (profiles, stations, appointments) and timestamps are positive          *)
(* integers, so `not x` on such a value is `x = None`.  A proficiency is   *)
(* one of the strings 'L1', 'L2', 'L3'; the empty string stands for a      *)
(* falsy proficiency argument (None or '').  A call's outcome is the       *)
(* string "True" for `return True`, or the exception it raises.            *)
(***************************************************************************)
EXTENDS Integers, Sequences, FiniteSets, TLC

VARIABLES
    appts,      \* the Appointment instances, by id: their Python attributes
    db,         \* the appointment table: one row per instance, declared fields only
    nsaves,     \* number of Model.save() calls made so far
    history,    \* the calls completed so far, oldest first, with their outcomes
    pc,         \* per caller: the line its current call is at, or "idle"
    frame       \* per caller: the arguments of its current call

vars == <<appts, db, nsaves, history, pc, frame>>

\* ---------------------------------------------------------------- bounds
NumAppts == 2
NumProfiles == 3
NumStations == 2
MaxTime == 3
MaxCalls == 3
NumCallers == 2

Appts == 1..NumAppts
Profiles == 1..NumProfiles
Stations == 1..NumStations
Times == 1..MaxTime
Callers == 1..NumCallers

\* ------------------------------------------------------------- constants
None == 0

LEVEL1 == "L1"
LEVEL2 == "L2"
LEVEL3 == "L3"
LEVEL_CHOICES == <<LEVEL1, LEVEL2, LEVEL3>>
Levels == {LEVEL_CHOICES[i] : i \in 1..Len(LEVEL_CHOICES)}

\* return True
True == "True"
\* the exceptions the three operations raise
MissingStartTime == "ValueError: Appointment must have a start_time."
MissingEndTime == "ValueError: Appointment must have an end_time."
MissingStation == "ValueError: Appointment must have a station."
MissingProficiency == "ValueError: Appointment must have a proficiency."
InvalidTimeRange == "ValidationError: Start time must come before end time."
SelfNotDefined == "NameError: name 'self' is not defined"
AlreadyFilled == "ValidationError: Appointment is already filled."
ProficiencyMismatch == "ValidationError: Profile does not have appropriate proficiency level."
NotFilled == "ValidationError: Appointment is not yet filled."

\* ------------------------------------------------------------------ data
\* Profile.proficiency of the profiles in the store: profiles 1 and 2 hold
\* Level 1, profiles 3 and 4 Level 2, and so on round the three levels.
profile_proficiency(profile) ==
    LEVEL_CHOICES[(((profile - 1) \div 2) % Len(LEVEL_CHOICES)) + 1]

\* An Appointment instance in the created state: unfilled, no profile attribute set.
Appointment(start_time, end_time, station, proficiency) ==
    [start_time |-> start_time, end_time |-> end_time, station |-> station,
     proficiency |-> proficiency, filled |-> FALSE, profile |-> None]

\* The row Model.save() writes for an instance: the model's declared fields.
\* `profile` is no declared field of Appointment, so it is an attribute of the
\* instance only and no column of the row.
Row(obj) ==
    [start_time |-> obj.start_time, end_time |-> obj.end_time,
     filled |-> obj.filled, proficiency |-> obj.proficiency,
     station |-> obj.station]

\* appointment.save(): the instance's row is written, once.
save(appointment, objs) ==
    /\ db' = [db EXCEPT ![appointment] = Row(objs[appointment])]
    /\ nsaves' = nsaves + 1

Last == history[Len(history)]

Idle == [op |-> "idle"]

\* ------------------------------------------------- Appointment.__eq__
\* Variant: the end time taken as inclusive (< for <= at line 237).
eq_end_inclusive(self, other) ==
    IF self.end_time < other.start_time THEN FALSE
    ELSE IF self.start_time >= other.end_time THEN FALSE
    ELSE TRUE

\* Variant: the second test (lines 239-240) left out.
eq_one_sided(self, other) ==
    IF self.end_time <= other.start_time THEN FALSE
    ELSE TRUE

__eq__(self, other) ==
    IF self.end_time <= other.start_time THEN FALSE
    ELSE IF self.start_time >= other.end_time THEN FALSE
    ELSE TRUE

\* self == other on two stored appointments; the comparison is pure, so it is
\* applied once to the appointments Init drew.
Compare(self, other) ==
    /\ history = <<>>
    /\ history' = <<[op |-> "__eq__", self |-> self, other |-> other,
                     result |-> __eq__(appts[self], appts[other])]>>
    /\ UNCHANGED <<appts, db, nsaves, pc, frame>>

\* ------------------------------------------------- create_appointment
create_appointment_outcome(start_time, end_time, station, proficiency) ==
    IF start_time = None THEN MissingStartTime
    ELSE IF end_time = None THEN MissingEndTime
    ELSE IF station = None THEN MissingStation
    ELSE IF proficiency = "" THEN MissingProficiency
    ELSE IF start_time > end_time THEN InvalidTimeRange
    \* line 275: `self` is no name of a module-level function, so the
    \* constructor call raises before anything is built or saved.
    ELSE SelfNotDefined

create_appointment(start_time, end_time, station, proficiency) ==
    /\ history = <<>>
    /\ history' = <<[op |-> "create_appointment",
                     start_time |-> start_time, end_time |-> end_time,
                     station |-> station, proficiency |-> proficiency,
                     result |-> create_appointment_outcome(
                                    start_time, end_time, station, proficiency)]>>
    /\ UNCHANGED <<appts, db, nsaves, pc, frame>>

\* -------------------------------------- assign / unassign, whole calls
Returned(op, profile, appointment, result) ==
    history' = Append(history, [op |-> op, profile |-> profile,
                                appointment |-> appointment, result |-> result])

\* Variant: the two checks (lines 296 and 300) in the other order.
assign_checks_swapped(profile, appointment) ==
    /\ Len(history) < MaxCalls
    /\ IF appts[appointment].proficiency # profile_proficiency(profile)
         THEN /\ Returned("assign", profile, appointment, ProficiencyMismatch)
              /\ UNCHANGED <<appts, db, nsaves>>
       ELSE IF appts[appointment].filled
         THEN /\ Returned("assign", profile, appointment, AlreadyFilled)
              /\ UNCHANGED <<appts, db, nsaves>>
       ELSE /\ appts' = [appts EXCEPT ![appointment].filled = TRUE,
                                      ![appointment].profile = profile]
            /\ save(appointment, appts')
            /\ Returned("assign", profile, appointment, True)
    /\ UNCHANGED <<pc, frame>>

\* Variant: the proficiency check (lines 300-303) left out.
assign_skips_proficiency(profile, appointment) ==
    /\ Len(history) < MaxCalls
    /\ IF appts[appointment].filled
         THEN /\ Returned("assign", profile, appointment, AlreadyFilled)
              /\ UNCHANGED <<appts, db, nsaves>>
       ELSE /\ appts' = [appts EXCEPT ![appointment].filled = TRUE,
                                      ![appointment].profile = profile]
            /\ save(appointment, appts')
            /\ Returned("assign", profile, appointment, True)
    /\ UNCHANGED <<pc, frame>>

assign_profile_to_appointment(profile, appointment) ==
    /\ Len(history) < MaxCalls
    /\ IF appts[appointment].filled
         THEN /\ Returned("assign", profile, appointment, AlreadyFilled)
              /\ UNCHANGED <<appts, db, nsaves>>
       ELSE IF appts[appointment].proficiency # profile_proficiency(profile)
         THEN /\ Returned("assign", profile, appointment, ProficiencyMismatch)
              /\ UNCHANGED <<appts, db, nsaves>>
       ELSE /\ appts' = [appts EXCEPT ![appointment].filled = TRUE,
                                      ![appointment].profile = profile]
            /\ save(appointment, appts')
            /\ Returned("assign", profile, appointment, True)
    /\ UNCHANGED <<pc, frame>>

\* Variant: the profile argument must be the assignee, else the call fails.
unassign_checks_assignee(profile, appointment) ==
    /\ Len(history) < MaxCalls
    /\ IF ~appts[appointment].filled \/ appts[appointment].profile # profile
         THEN /\ Returned("unassign", profile, appointment, NotFilled)
              /\ UNCHANGED <<appts, db, nsaves>>
       ELSE /\ appts' = [appts EXCEPT ![appointment].filled = FALSE,
                                      ![appointment].profile = None]
            /\ save(appointment, appts')
            /\ Returned("unassign", profile, appointment, True)
    /\ UNCHANGED <<pc, frame>>

\* Variant: line 324 (appointment.profile=None) left out.
unassign_keeps_profile(profile, appointment) ==
    /\ Len(history) < MaxCalls
    /\ IF ~appts[appointment].filled
         THEN /\ Returned("unassign", profile, appointment, NotFilled)
              /\ UNCHANGED <<appts, db, nsaves>>
       ELSE /\ appts' = [appts EXCEPT ![appointment].filled = FALSE]
            /\ save(appointment, appts')
            /\ Returned("unassign", profile, appointment, True)
    /\ UNCHANGED <<pc, frame>>

unassign_profile_to_appointment(profile, appointment) ==
    /\ Len(history) < MaxCalls
    /\ IF ~appts[appointment].filled
         THEN /\ Returned("unassign", profile, appointment, NotFilled)
              /\ UNCHANGED <<appts, db, nsaves>>
       ELSE /\ appts' = [appts EXCEPT ![appointment].filled = FALSE,
                                      ![appointment].profile = None]
            /\ save(appointment, appts')
            /\ Returned("unassign", profile, appointment, True)
    /\ UNCHANGED <<pc, frame>>

\* ------------------------- assign / unassign, line by line, per caller
\* Callers share the Appointment instance they were handed; nothing in either
\* function takes a lock or opens a transaction, so another caller may run
\* between any two lines.
InFlight == {t \in Callers : pc[t] # "idle"}

Goto(t, line) == pc' = [pc EXCEPT ![t] = line]

Finish(t, result) ==
    /\ Returned(frame[t].op, frame[t].profile, frame[t].appointment, result)
    /\ pc' = [pc EXCEPT ![t] = "idle"]
    /\ frame' = [frame EXCEPT ![t] = Idle]

Call(t, op, profile, appointment) ==
    /\ pc[t] = "idle"
    /\ Len(history) + Cardinality(InFlight) < MaxCalls
    /\ frame' = [frame EXCEPT ![t] = [op |-> op, profile |-> profile,
                                      appointment |-> appointment]]
    /\ Goto(t, IF op = "assign" THEN "296" ELSE "318")
    /\ UNCHANGED <<appts, db, nsaves, history>>

\* 296: if(appointment.filled): raise ValidationError
assign_296(t) ==
    /\ pc[t] = "296"
    /\ IF appts[frame[t].appointment].filled
         THEN Finish(t, AlreadyFilled)
         ELSE Goto(t, "300") /\ UNCHANGED <<frame, history>>
    /\ UNCHANGED <<appts, db, nsaves>>

\* 300: if(appointment.proficiency!=profile.proficiency): raise ValidationError
assign_300(t) ==
    /\ pc[t] = "300"
    /\ IF appts[frame[t].appointment].proficiency
            # profile_proficiency(frame[t].profile)
         THEN Finish(t, ProficiencyMismatch)
         ELSE Goto(t, "305") /\ UNCHANGED <<frame, history>>
    /\ UNCHANGED <<appts, db, nsaves>>

\* 305: appointment.filled=True
assign_305(t) ==
    /\ pc[t] = "305"
    /\ appts' = [appts EXCEPT ![frame[t].appointment].filled = TRUE]
    /\ Goto(t, "306")
    /\ UNCHANGED <<db, nsaves, history, frame>>

\* 306: appointment.profile=profile
assign_306(t) ==
    /\ pc[t] = "306"
    /\ appts' = [appts EXCEPT ![frame[t].appointment].profile = frame[t].profile]
    /\ Goto(t, "307")
    /\ UNCHANGED <<db, nsaves, history, frame>>

\* 307-308: appointment.save(); return True
assign_307(t) ==
    /\ pc[t] = "307"
    /\ save(frame[t].appointment, appts)
    /\ Finish(t, True)
    /\ UNCHANGED appts

\* 318: if(not appointment.filled): raise ValidationError
unassign_318(t) ==
    /\ pc[t] = "318"
    /\ IF ~appts[frame[t].appointment].filled
         THEN Finish(t, NotFilled)
         ELSE Goto(t, "323") /\ UNCHANGED <<frame, history>>
    /\ UNCHANGED <<appts, db, nsaves>>

\* 323: appointment.filled=False
unassign_323(t) ==
    /\ pc[t] = "323"
    /\ appts' = [appts EXCEPT ![frame[t].appointment].filled = FALSE]
    /\ Goto(t, "324")
    /\ UNCHANGED <<db, nsaves, history, frame>>

\* 324: appointment.profile=None
unassign_324(t) ==
    /\ pc[t] = "324"
    /\ appts' = [appts EXCEPT ![frame[t].appointment].profile = None]
    /\ Goto(t, "325")
    /\ UNCHANGED <<db, nsaves, history, frame>>

\* 325-326: appointment.save(); return True
unassign_325(t) ==
    /\ pc[t] = "325"
    /\ save(frame[t].appointment, appts)
    /\ Finish(t, True)
    /\ UNCHANGED appts

\* ------------------------------------------------------- initial states
\* The stored appointments, all in the created state.
InitStore(objs) ==
    /\ appts = objs
    /\ db = [a \in Appts |-> Row(objs[a])]
    /\ nsaves = 0
    /\ history = <<>>
    /\ pc = [t \in Callers |-> "idle"]
    /\ frame = [t \in Callers |-> Idle]

\* Appointment a is at station a (round the stations) and requires level a
\* (round the three levels).
StationOf(a) == ((a - 1) % NumStations) + 1

RequiredOf(a) == LEVEL_CHOICES[((a - 1) % Len(LEVEL_CHOICES)) + 1]

\* Appointment a runs from a to a+1.
Init ==
    InitStore([a \in Appts |->
                  Appointment(a, a + 1, StationOf(a), RequiredOf(a))])

\* Appointments with any start and end time (rows are also written through the
\* ORM, which validates no time range).
InitOverlap ==
    \E st \in [Appts -> Times], en \in [Appts -> Times] :
        InitStore([a \in Appts |->
                      Appointment(st[a], en[a], StationOf(a), RequiredOf(a))])

\* ------------------------------------------------------- specifications
Next ==
    \/ \E p \in Profiles, a \in Appts : assign_profile_to_appointment(p, a)
    \/ \E p \in Profiles, a \in Appts : unassign_profile_to_appointment(p, a)

Spec == Init /\ [][Next]_vars

NextOverlap == \E a \in Appts, b \in Appts : Compare(a, b)

SpecOverlap == InitOverlap /\ [][NextOverlap]_vars

NextCreate ==
    \E s \in Times \cup {None}, e \in Times \cup {None},
       st \in Stations \cup {None}, pr \in Levels \cup {""} :
        create_appointment(s, e, st, pr)

SpecCreate == Init /\ [][NextCreate]_vars

NextConc ==
    \/ \E t \in Callers, op \in {"assign", "unassign"},
          p \in Profiles, a \in Appts : Call(t, op, p, a)
    \/ \E t \in Callers : assign_296(t)
    \/ \E t \in Callers : assign_300(t)
    \/ \E t \in Callers : assign_305(t)
    \/ \E t \in Callers : assign_306(t)
    \/ \E t \in Callers : assign_307(t)
    \/ \E t \in Callers : unassign_318(t)
    \/ \E t \in Callers : unassign_323(t)
    \/ \E t \in Callers : unassign_324(t)
    \/ \E t \in Callers : unassign_325(t)

SpecConc == Init /\ [][NextConc]_vars

\* =============================================================== claims
\* The call a step completes, when the step completes one.
Completes == Len(history') = Len(history) + 1

Done == history'[Len(history')]

Raised == {MissingStartTime, MissingEndTime, MissingStation, MissingProficiency,
           InvalidTimeRange, SelfNotDefined, AlreadyFilled, ProficiencyMismatch,
           NotFilled}

AllPresent(c) ==
    /\ c.start_time # None
    /\ c.end_time # None
    /\ c.station # None
    /\ c.proficiency # ""

\* C1: a create_appointment call whose start_time is not strictly before its
\* end_time (equal times included) fails with the invalid-time-range error and
\* saves nothing; so a call that passes validation has start_time < end_time.
C1_RejectsNonStrictRange ==
    (history # <<>> /\ Last.op = "create_appointment" /\ AllPresent(Last))
        => /\ Last.start_time >= Last.end_time
                => Last.result = InvalidTimeRange /\ nsaves = 0
           /\ Last.result \notin {MissingStartTime, MissingEndTime, MissingStation,
                                  MissingProficiency, InvalidTimeRange}
                => Last.start_time < Last.end_time

\* C2: a create_appointment call with all four arguments present and
\* start_time < end_time succeeds: it raises nothing and one appointment is
\* saved.
C2_CreateSucceeds ==
    (history # <<>> /\ Last.op = "create_appointment" /\ AllPresent(Last)
       /\ Last.start_time < Last.end_time)
        => Last.result \notin Raised /\ nsaves = 1

Touching(A, B) ==
    /\ A.start_time < A.end_time
    /\ A.end_time = B.start_time
    /\ B.start_time < B.end_time

\* C3: the overlap comparison of A with B is false exactly when
\* A.end_time <= B.start_time or A.start_time >= B.end_time and true
\* otherwise; the answer is the same whatever the stations of A and B, and the
\* comparison changes no appointment, no row and saves nothing.
C3_OverlapHalfOpen ==
    [][(Completes /\ Done.op = "__eq__") =>
         LET A == appts[Done.self]
             B == appts[Done.other]
         IN  /\ Done.result = ~(\/ A.end_time <= B.start_time
                                \/ A.start_time >= B.end_time)
             /\ \A s1 \in Stations, s2 \in Stations :
                   __eq__([A EXCEPT !.station = s1], [B EXCEPT !.station = s2])
                       = Done.result
             /\ UNCHANGED <<appts, db, nsaves>>]_vars

\* Two appointments at different stations that touch end to start were
\* compared, and the answer was false.
C3_Witness ==
    /\ history # <<>>
    /\ Last.op = "__eq__"
    /\ Touching(appts[Last.self], appts[Last.other])
    /\ appts[Last.self].station # appts[Last.other].station
    /\ Last.result = FALSE

\* C4: the overlap comparison is symmetric: the answer of A compared with B is
\* the answer of B compared with A, whatever their start and end times.
C4_OverlapSymmetric ==
    (history # <<>> /\ Last.op = "__eq__")
        => Last.result = __eq__(appts[Last.other], appts[Last.self])

\* An appointment whose start is not before its end was compared with another
\* appointment, and the answer was true.
C4_Witness ==
    /\ history # <<>>
    /\ Last.op = "__eq__"
    /\ Last.self # Last.other
    /\ appts[Last.self].start_time >= appts[Last.self].end_time
    /\ Last.result = TRUE

\* The fields an assign or unassign call is not meant to touch.
SameSlot(a) ==
    /\ appts'[a].start_time = appts[a].start_time
    /\ appts'[a].end_time = appts[a].end_time
    /\ appts'[a].station = appts[a].station
    /\ appts'[a].proficiency = appts[a].proficiency

\* C5: an assign call on a filled appointment fails with the already-filled
\* error, also when the proficiencies differ; on an unfilled appointment whose
\* proficiency differs from the profile's it fails with the
\* proficiency-mismatch error.  A failing call changes no appointment, writes
\* no row and saves nothing.
C5_AssignFailures ==
    [][(Completes /\ Done.op = "assign") =>
         LET A == appts[Done.appointment]
             differ == A.proficiency # profile_proficiency(Done.profile)
         IN  /\ A.filled => Done.result = AlreadyFilled
             /\ (~A.filled /\ differ) => Done.result = ProficiencyMismatch
             /\ (A.filled \/ differ) => UNCHANGED <<appts, db, nsaves>>]_vars

\* An assign call on a filled appointment, by a profile of another
\* proficiency, failed with the already-filled error.
C5_Witness ==
    /\ history # <<>>
    /\ Last.op = "assign"
    /\ Last.result = AlreadyFilled
    /\ appts[Last.appointment].filled
    /\ appts[Last.appointment].proficiency # profile_proficiency(Last.profile)

\* C6: an assign call on an unfilled appointment by a profile of the
\* appointment's proficiency returns True; afterwards the appointment is
\* filled, its profile is the given profile and its other fields are as
\* before, one save was made, and what was saved holds the change: the
\* appointment's row is filled and carries the profile.
C6_AssignSucceedsAndPersists ==
    [][(Completes /\ Done.op = "assign"
          /\ ~appts[Done.appointment].filled
          /\ appts[Done.appointment].proficiency = profile_proficiency(Done.profile))
        => LET a == Done.appointment
           IN  /\ Done.result = True
               /\ appts'[a].filled
               /\ appts'[a].profile = Done.profile
               /\ SameSlot(a)
               /\ nsaves' = nsaves + 1
               /\ db'[a].filled
               /\ "profile" \in DOMAIN db'[a]
               /\ db'[a].profile = Done.profile]_vars

\* C7: an unassign call, whatever its profile argument, returns True on a
\* filled appointment and leaves it unfilled with no profile; on an unfilled
\* appointment it fails with the not-yet-filled error and changes nothing.  So
\* an unassign call that follows a successful unassign call on the same
\* appointment fails with the not-yet-filled error.
C7_Unassign ==
    [][(Completes /\ Done.op = "unassign") =>
         LET a == Done.appointment
         IN  /\ appts[a].filled =>
                   /\ Done.result = True
                   /\ ~appts'[a].filled
                   /\ appts'[a].profile = None
             /\ ~appts[a].filled =>
                   /\ Done.result = NotFilled
                   /\ UNCHANGED <<appts, db, nsaves>>
             /\ (/\ history # <<>>
                 /\ Last.op = "unassign"
                 /\ Last.appointment = a
                 /\ Last.result = True) => Done.result = NotFilled]_vars

\* A profile was assigned; an unassign call naming another profile succeeded;
\* the unassign call after it, on the same appointment, failed.
C7_Witness ==
    /\ Len(history) = 3
    /\ history[1].op = "assign" /\ history[1].result = True
    /\ history[2].op = "unassign" /\ history[2].result = True
    /\ history[2].appointment = history[1].appointment
    /\ history[2].profile # history[1].profile
    /\ history[3].op = "unassign" /\ history[3].result = NotFilled
    /\ history[3].appointment = history[1].appointment
    /\ ~appts[history[1].appointment].filled
    /\ appts[history[1].appointment].profile = None

\* C8: after any sequence of assign and unassign calls on appointments that
\* began in the created state, an appointment is filled exactly when it has a
\* profile.
C8_FilledIffProfile ==
    \A a \in Appts : appts[a].filled <=> appts[a].profile # None

\* One appointment was assigned and unassigned again, and another is filled.
C8_Witness ==
    /\ \E i \in 1..Len(history), j \in 1..Len(history) :
          /\ i < j
          /\ history[i].op = "assign" /\ history[i].result = True
          /\ history[j].op = "unassign" /\ history[j].result = True
          /\ history[j].appointment = history[i].appointment
          /\ ~appts[history[i].appointment].filled
    /\ \E a \in Appts : appts[a].filled /\ appts[a].profile # None

\* Where a caller is once its call can no longer fail.
PastChecks == {"305", "306", "307"}

\* C9: the check of the filled flag and the write of filled and profile are
\* one atomic unit: of two assign calls in flight on the same appointment at
\* most one gets past the already-filled check.
C9_AssignAtomic ==
    \A t \in Callers, u \in Callers :
        (/\ t # u
         /\ frame[t].op = "assign"
         /\ frame[u].op = "assign"
         /\ frame[t].appointment = frame[u].appointment)
            => ~(pc[t] \in PastChecks /\ pc[u] \in PastChecks)

\* C10: after any sequence of assign and unassign calls, the profile of every
\* filled appointment has the proficiency the appointment requires.
C10_FilledProficiencyMatches ==
    \A a \in Appts :
        appts[a].filled =>
            /\ appts[a].profile \in Profiles
            /\ profile_proficiency(appts[a].profile) = appts[a].proficiency

\* An appointment is filled after an assign call by a profile of another
\* proficiency was refused on it.
C10_Witness ==
    \E i \in 1..Len(history) :
        /\ history[i].op = "assign"
        /\ history[i].result = ProficiencyMismatch
        /\ appts[history[i].appointment].filled

====
